---------------------------- MODULE Spec2Model ----------------------------
(***************************************************************************)
(* A model of mocker (src/mocker.go), the `docker model` CLI plugin that   *)
(* relays model-management commands to an Ollama container.                *)
(*                                                                         *)
(* The state is the container runtime (the container named                 *)
(* mocker-model-runner, the other running containers, the volume) and, per *)
(* invocation of the plugin, the position of the running subcommand, the   *)
(* processes it has spawned so far, what it has printed and what it        *)
(* returned.  Every spawned process is one step; its exit status is a      *)
(* nondeterministic input wherever the runtime can make it fail.           *)
(*                                                                         *)
(* Text is modelled as sequences of one-character strings, so that         *)
(* strings.Contains, strings.Fields and the regular expressions are        *)
(* computed on characters as the code computes them.  The three block      *)
(* characters of the progress bar are written in ASCII: "[" stands for     *)
(* U+2595, "#" for U+2588 and "|" for U+258F.                              *)
(***************************************************************************)
EXTENDS Integers, Sequences, FiniteSets, TLC

VARIABLES
    container,  \* the container named OllamaContainerName: absent, exited, running
    others,     \* names of the other running containers
    volume,     \* whether the volume "ollama" exists
    intact,     \* ensureOllamaRunning saw the container active or launched it, and nothing stopped or removed it since
    cmd,        \* cmd[p]: the subcommand invocation p runs
    pc,         \* pc[p]: its position
    trace,      \* trace[p]: the processes it has spawned (and its sleep), in order
    out,        \* out[p]: what it has printed, in order
    ret,        \* ret[p]: what RunE returned
    ensured,    \* ensured[p]: what ensureOllamaRunning returned in this invocation
    job         \* job[p]: the data of the running subcommand (list lines, pull pipes)

vars == <<container, others, volume, intact, cmd, pc, trace, out, ret, ensured, job>>

---------------------------------------------------------------------------
(* Bounds *)

NumProcs == 2

Procs == 1..NumProcs

---------------------------------------------------------------------------
(* Text *)

NL == "\n"

Whitespace == {" ", "\n", "\t", "\r"}

\* s[a..b], cut at the end of s.
Slice(s, a, b) ==
    LET e == IF b < Len(s) THEN b ELSE Len(s)
    IN IF e < a THEN <<>> ELSE SubSeq(s, a, e)

\* strings.Contains(s, sub)
Contains(s, sub) ==
    \E i \in 1..(Len(s) - Len(sub) + 1) : Slice(s, i, i + Len(sub) - 1) = sub

RECURSIVE Concat(_)
Concat(ss) == IF ss = <<>> THEN <<>> ELSE Head(ss) \o Concat(Tail(ss))

RECURSIVE SetToSeq(_)
SetToSeq(S) ==
    IF S = {} THEN <<>>
    ELSE LET x == CHOOSE y \in S : TRUE IN <<x>> \o SetToSeq(S \ {x})

---------------------------------------------------------------------------
(* Constants of the program *)

OllamaContainerName ==
    <<"m","o","c","k","e","r","-","m","o","d","e","l","-","r","u","n","n","e","r">>

\* Names other running containers may have.
OtherNames ==
    { OllamaContainerName \o <<"-","2">>,
      <<"m","y","-">> \o OllamaContainerName,
      <<"o","l","l","a","m","a">> }

Commands == {"status", "version", "list", "pull", "rm", "run"}

---------------------------------------------------------------------------
(* The container runtime *)

\* The names `docker ps --format {{.Names}}` prints: one running container a line.
RunningNames ==
    others \cup (IF container = "running" THEN {OllamaContainerName} ELSE {})

PsOutput == Concat([i \in 1..Cardinality(RunningNames) |->
                        SetToSeq(RunningNames)[i] \o <<NL>>])

\* isOllamaRunning: false when the listing failed, else whether its output contains the name.
\* (variant: the test of the output negated)
IsOllamaRunningNegated(ok, output) ==
    IF ~ok THEN FALSE ELSE ~Contains(output, OllamaContainerName)

IsOllamaRunning(ok, output) ==
    IF ~ok THEN FALSE ELSE Contains(output, OllamaContainerName)

\* A record of one spawned process (or the sleep): what it was, how it exited, and
\* the runtime's state when it was spawned.
Step(kind, arg, ok) ==
    [kind |-> kind, arg |-> arg, ok |-> ok, live |-> container, intact |-> intact]

NoRet == [done |-> FALSE, err |-> 0]
RetNil == [done |-> TRUE, err |-> 0]
\* The error of the process spawned as step i of the invocation.
RetErr(i) == [done |-> TRUE, err |-> i]

NoJob == [kind |-> "none"]

\* The container stops on its own (the engine exits); it stays as a stale container.
ContainerStops ==
    /\ container = "running"
    /\ container' = "exited"
    /\ intact' = FALSE
    /\ UNCHANGED <<others, volume, cmd, pc, trace, out, ret, ensured, job>>

---------------------------------------------------------------------------
(* ensureOllamaRunning *)

\* The first position of a subcommand's body, after ensureOllamaRunning returned nil.
BodyEntry(c) ==
    CASE c = "version" -> "ver_exec"
      [] c = "list"    -> "list_exec"
      [] c = "pull"    -> "pull_start"
      [] c = "rm"      -> "rm_exec"
      [] c = "run"     -> "run_exec"

\* A subcommand is invoked: RunE starts.
Start(p, cmds) ==
    /\ pc[p] = "idle"
    /\ \E c \in cmds :
        /\ cmd' = [cmd EXCEPT ![p] = c]
        /\ pc' = [pc EXCEPT ![p] = IF c = "status" THEN "status_ps" ELSE "ens_ps"]
        /\ out' = [out EXCEPT ![p] = IF c = "pull" THEN <<[msg |-> "Pulling model"]>> ELSE <<>>]
    /\ trace' = [trace EXCEPT ![p] = <<>>]
    /\ ret' = [ret EXCEPT ![p] = NoRet]
    /\ ensured' = [ensured EXCEPT ![p] = "no"]
    /\ job' = [job EXCEPT ![p] = NoJob]
    /\ UNCHANGED <<container, others, volume, intact>>

\* ensureOllamaRunning returns nil.
EnsureNil(p) ==
    /\ ensured' = [ensured EXCEPT ![p] = "nil"]
    /\ pc' = [pc EXCEPT ![p] = BodyEntry(cmd[p])]

\* if !isOllamaRunning()
EnsurePs(p) ==
    /\ pc[p] = "ens_ps"
    /\ \E ok \in BOOLEAN :
        /\ trace' = [trace EXCEPT ![p] = Append(@, Step("ps", "", ok))]
        /\ IF IsOllamaRunning(ok, PsOutput)
             THEN /\ EnsureNil(p)
                  /\ intact' = TRUE
                  /\ UNCHANGED out
             ELSE /\ pc' = [pc EXCEPT ![p] = "ens_rm"]
                  /\ out' = [out EXCEPT ![p] = Append(@, [msg |-> "Starting"])]
                  /\ UNCHANGED <<ensured, intact>>
    /\ UNCHANGED <<container, others, volume, cmd, ret, job>>

\* (variant: the container is launched right after the removal, before the volume is created)
EnsureRmThenRun(p) ==
    /\ pc[p] = "ens_rm"
    /\ \E ok \in BOOLEAN :
        /\ trace' = [trace EXCEPT ![p] = Append(@, Step("rm", "", ok))]
        /\ container' = IF ok THEN "absent" ELSE container
        /\ intact' = IF ok THEN FALSE ELSE intact
    /\ pc' = [pc EXCEPT ![p] = "ens_run"]
    /\ UNCHANGED <<others, volume, cmd, out, ret, ensured, job>>

\* docker rm -f mocker-model-runner; its error is ignored.
EnsureRm(p) ==
    /\ pc[p] = "ens_rm"
    /\ \E ok \in BOOLEAN :
        /\ trace' = [trace EXCEPT ![p] = Append(@, Step("rm", "", ok))]
        /\ container' = IF ok THEN "absent" ELSE container
        /\ intact' = IF ok THEN FALSE ELSE intact
    /\ pc' = [pc EXCEPT ![p] = "ens_vol"]
    /\ UNCHANGED <<others, volume, cmd, out, ret, ensured, job>>

\* docker volume create ollama; its error is ignored.
EnsureVolume(p) ==
    /\ pc[p] = "ens_vol"
    /\ \E ok \in BOOLEAN :
        /\ trace' = [trace EXCEPT ![p] = Append(@, Step("volume", "", ok))]
        /\ volume' = (volume \/ ok)
    /\ pc' = [pc EXCEPT ![p] = "ens_run"]
    /\ UNCHANGED <<container, others, intact, cmd, out, ret, ensured, job>>

\* (variant: the error of docker run is dropped like those of rm and volume create)
EnsureRunIgnoresError(p) ==
    /\ pc[p] = "ens_run"
    /\ \E ok \in (IF container = "absent" THEN BOOLEAN ELSE {FALSE}) :
        /\ trace' = [trace EXCEPT ![p] = Append(@, Step("run", "", ok))]
        /\ container' = IF ok THEN "running" ELSE container
        /\ volume' = (volume \/ ok)
        /\ intact' = (intact \/ ok)
    /\ pc' = [pc EXCEPT ![p] = "ens_sleep"]
    /\ UNCHANGED <<others, cmd, out, ret, ensured, job>>

\* docker run -d --name mocker-model-runner ...: fails when the name is taken, and
\* may fail otherwise (the image pull, the port).
EnsureRun(p) ==
    /\ pc[p] = "ens_run"
    /\ \E ok \in (IF container = "absent" THEN BOOLEAN ELSE {FALSE}) :
        /\ trace' = [trace EXCEPT ![p] = Append(@, Step("run", "", ok))]
        /\ IF ok
             THEN /\ container' = "running"
                  /\ volume' = TRUE
                  /\ intact' = TRUE
                  /\ pc' = [pc EXCEPT ![p] = "ens_sleep"]
                  /\ UNCHANGED <<ret, ensured>>
             ELSE /\ ensured' = [ensured EXCEPT ![p] = "err"]
                  /\ ret' = [ret EXCEPT ![p] = RetErr(Len(trace[p]) + 1)]
                  /\ pc' = [pc EXCEPT ![p] = "idle"]
                  /\ UNCHANGED <<container, volume, intact>>
    /\ UNCHANGED <<others, cmd, out, job>>

\* time.Sleep(2 * time.Second), then return nil
EnsureSleep(p) ==
    /\ pc[p] = "ens_sleep"
    /\ trace' = [trace EXCEPT ![p] = Append(@, Step("sleep", "", TRUE))]
    /\ EnsureNil(p)
    /\ UNCHANGED <<container, others, volume, intact, cmd, out, ret, job>>

---------------------------------------------------------------------------
(* status *)

\* (variant: status launches the container when the listing does not show it)
StatusLaunches(p) ==
    /\ pc[p] = "status_ps"
    /\ \E ok \in BOOLEAN :
        /\ trace' = [trace EXCEPT ![p] = Append(@, Step("ps", "", ok))]
        /\ out' = [out EXCEPT ![p] = Append(@,
                     [msg |-> IF IsOllamaRunning(ok, PsOutput) THEN "active" ELSE "not running"])]
        /\ container' = IF IsOllamaRunning(ok, PsOutput) THEN container ELSE "running"
    /\ ret' = [ret EXCEPT ![p] = RetNil]
    /\ pc' = [pc EXCEPT ![p] = "idle"]
    /\ UNCHANGED <<others, volume, intact, cmd, ensured, job>>

\* isOllamaRunning, the line for its answer, return nil.
Status(p) ==
    /\ pc[p] = "status_ps"
    /\ \E ok \in BOOLEAN :
        /\ trace' = [trace EXCEPT ![p] = Append(@, Step("ps", "", ok))]
        /\ out' = [out EXCEPT ![p] = Append(@,
                     [msg |-> IF IsOllamaRunning(ok, PsOutput) THEN "active" ELSE "not running"])]
    /\ ret' = [ret EXCEPT ![p] = RetNil]
    /\ pc' = [pc EXCEPT ![p] = "idle"]
    /\ UNCHANGED <<container, others, volume, intact, cmd, ensured, job>>

---------------------------------------------------------------------------
(* runInOllama, runInOllamaInteractive *)

\* The exit statuses `docker exec mocker-model-runner ...` can have: it fails when
\* no container of that name runs, and the command inside may fail.
ExecOutcomes == IF container = "running" THEN BOOLEAN ELSE {FALSE}

\* version, rm: one runInOllama, then the message.
ExecSimple(p, at, arg, msg) ==
    /\ pc[p] = at
    /\ \E ok \in ExecOutcomes :
        /\ trace' = [trace EXCEPT ![p] = Append(@, Step("exec", arg, ok))]
        /\ IF ok
             THEN /\ out' = [out EXCEPT ![p] = Append(@, [msg |-> msg])]
                  /\ ret' = [ret EXCEPT ![p] = RetNil]
             ELSE /\ ret' = [ret EXCEPT ![p] = RetErr(Len(trace[p]) + 1)]
                  /\ UNCHANGED out
    /\ pc' = [pc EXCEPT ![p] = "idle"]
    /\ UNCHANGED <<container, others, volume, intact, cmd, ensured, job>>

Version(p) == ExecSimple(p, "ver_exec", "--version", "version")

Rm(p) == ExecSimple(p, "rm_exec", "rm", "removed")

\* run: the message for the mode, then runInOllamaInteractive, whose error is returned.
Run(p) ==
    /\ pc[p] = "run_exec"
    /\ \E prompt \in BOOLEAN, ok \in ExecOutcomes :
        /\ out' = [out EXCEPT ![p] =
                     IF prompt THEN Append(@, [msg |-> "Running with prompt"])
                     ELSE @ \o <<[msg |-> "Interactive chat mode"], [msg |-> "disguise"]>>]
        /\ trace' = [trace EXCEPT ![p] = Append(@, Step("exec_it", "run", ok))]
        /\ ret' = [ret EXCEPT ![p] = IF ok THEN RetNil ELSE RetErr(Len(trace[p]) + 1)]
    /\ pc' = [pc EXCEPT ![p] = "idle"]
    /\ UNCHANGED <<container, others, volume, intact, cmd, ensured, job>>

---------------------------------------------------------------------------
(* Scanning text: bufio.ScanLines, strings.Fields, regexp *)

\* The first index >= k of s whose character is not in C (Len(s) + 1 if none).
RECURSIVE SpanIn(_, _, _)
SpanIn(s, k, C) == IF k > Len(s) \/ s[k] \notin C THEN k ELSE SpanIn(s, k + 1, C)

\* The first index >= k of s whose character is in C (Len(s) + 1 if none).
RECURSIVE SpanOut(_, _, _)
SpanOut(s, k, C) == IF k > Len(s) \/ s[k] \in C THEN k ELSE SpanOut(s, k + 1, C)

\* bufio.Scanner with the default split function: the lines of the text, without
\* their "\n" and one trailing "\r"; a last line without "\n" counts when not empty.
DropCR(l) == IF l # <<>> /\ l[Len(l)] = "\r" THEN Slice(l, 1, Len(l) - 1) ELSE l

RECURSIVE ScanLines(_)
ScanLines(text) ==
    IF text = <<>> THEN <<>>
    ELSE LET e == SpanOut(text, 1, {NL})
         IN <<DropCR(Slice(text, 1, e - 1))>> \o ScanLines(Slice(text, e + 1, Len(text)))

\* strings.Fields: the maximal runs of non-whitespace characters.
RECURSIVE Fields(_)
Fields(s) ==
    LET b == SpanIn(s, 1, Whitespace)
        e == SpanOut(s, b, Whitespace)
    IN IF b > Len(s) THEN <<>>
       ELSE <<Slice(s, b, e - 1)>> \o Fields(Slice(s, e, Len(s)))

\* strings.Join(fields, " ")
RECURSIVE Join(_)
Join(fs) ==
    IF fs = <<>> THEN <<>>
    ELSE IF Len(fs) = 1 THEN fs[1]
    ELSE fs[1] \o <<" ">> \o Join(Tail(fs))

\* regexp `kw\s+(\S+)`, FindStringSubmatch: the capture of the leftmost match, or
\* <<>> when nothing matches.  At a start i the keyword must be followed by
\* whitespace and then by a character that is not whitespace; \S+ is greedy.
KeywordMatchAt(s, kw, i) ==
    LET j == i + Len(kw)
        k == SpanIn(s, j, Whitespace)
    IN /\ s[i] = kw[1]
       /\ Slice(s, i, j - 1) = kw
       /\ k > j
       /\ k <= Len(s)

FindKeyword(s, kw) ==
    LET starts == {i \in 1..Len(s) : KeywordMatchAt(s, kw, i)}
    IN IF starts = {} THEN <<>>
       ELSE LET i == CHOOSE x \in starts : \A y \in starts : x <= y
                k == SpanIn(s, i + Len(kw), Whitespace)
            IN Slice(s, k, SpanOut(s, k, Whitespace) - 1)

Digits == {"0", "1", "2", "3", "4", "5", "6", "7", "8", "9"}

DigitVal(c) ==
    CASE c = "0" -> 0 [] c = "1" -> 1 [] c = "2" -> 2 [] c = "3" -> 3 [] c = "4" -> 4
      [] c = "5" -> 5 [] c = "6" -> 6 [] c = "7" -> 7 [] c = "8" -> 8 [] c = "9" -> 9

RECURSIVE DecVal(_)
DecVal(ds) == IF ds = <<>> THEN 0 ELSE 10 * DecVal(Slice(ds, 1, Len(ds) - 1)) + DigitVal(ds[Len(ds)])

\* strconv.ParseFloat(s, 64) with the error dropped, in hundredths: digits with at
\* most two digits after a point give their value, anything else gives 0.
ParseFloat(s) ==
    LET e == SpanIn(s, 1, Digits)
        frac == Slice(s, e + 1, Len(s))
    IN IF e = 1 THEN 0
       ELSE IF e > Len(s) THEN 100 * DecVal(s)
       ELSE IF s[e] = "." /\ Len(frac) \in {1, 2} /\ SpanIn(frac, 1, Digits) > Len(frac)
            THEN 100 * DecVal(Slice(s, 1, e - 1))
                 + (IF Len(frac) = 1 THEN 10 * DecVal(frac) ELSE DecVal(frac))
       ELSE 0

\* strings.ToUpper on the letters a unit can hold.
ToUpper(s) ==
    [i \in 1..Len(s) |->
        CASE s[i] = "g" -> "G" [] s[i] = "m" -> "M" [] s[i] = "k" -> "K" [] s[i] = "b" -> "B"
          [] OTHER -> s[i]]

---------------------------------------------------------------------------
(* getModelDetails and list *)

KwArchitecture == <<"a","r","c","h","i","t","e","c","t","u","r","e">>
KwQuantization == <<"q","u","a","n","t","i","z","a","t","i","o","n">>
Unknown == <<"u","n","k","n","o","w","n">>

\* (variant: one missing field blanks both)
GetModelDetailsCoupled(ok, output) ==
    LET a == FindKeyword(output, KwArchitecture)
        q == FindKeyword(output, KwQuantization)
    IN IF ~ok \/ a = <<>> \/ q = <<>>
         THEN [arch |-> Unknown, quant |-> Unknown, err |-> ~ok]
         ELSE [arch |-> a, quant |-> q, err |-> FALSE]

\* getModelDetails, given how `ollama show` exited and what it printed.
GetModelDetails(ok, output) ==
    IF ~ok THEN [arch |-> Unknown, quant |-> Unknown, err |-> TRUE]
    ELSE LET a == FindKeyword(output, KwArchitecture)
             q == FindKeyword(output, KwQuantization)
         IN [arch |-> IF a # <<>> THEN a ELSE Unknown,
             quant |-> IF q # <<>> THEN q ELSE Unknown,
             err |-> FALSE]

\* The parameter estimate of a row: the size times 1000 with suffix B for GB, the
\* size with suffix M otherwise (in hundredths).
Params(size, sizeUnit) ==
    IF ToUpper(sizeUnit) = <<"G", "B">>
      THEN [val |-> ParseFloat(size) * 1000, suffix |-> "B"]
      ELSE [val |-> ParseFloat(size), suffix |-> "M"]

\* The row printed for a line of at least 6 fields.
Row(fields, d) ==
    [msg |-> "row", model |-> fields[1], params |-> Params(fields[3], fields[4]),
     quant |-> d.quant, arch |-> d.arch, id |-> fields[2],
     time |-> Join(Slice(fields, 6, Len(fields))), size |-> fields[3], unit |-> fields[4]]

\* runInOllama("ollama", "list"), the table header, and the scanner past the header line.
ListExec(p, listOutputs) ==
    /\ pc[p] = "list_exec"
    /\ \E ok \in ExecOutcomes :
        /\ IF ok
             THEN \E text \in listOutputs :
                    /\ trace' = [trace EXCEPT ![p] =
                                   Append(@, Step("exec", "list", ok) @@ [text |-> text])]
                    /\ out' = [out EXCEPT ![p] = Append(@, [msg |-> "header"])]
                    /\ job' = [job EXCEPT ![p] =
                                 [kind |-> "list",
                                  lines |-> IF ScanLines(text) = <<>> THEN <<>>
                                            ELSE Tail(ScanLines(text)),
                                  seen |-> <<>>]]
                    /\ pc' = [pc EXCEPT ![p] = "list_loop"]
                    /\ UNCHANGED ret
             ELSE /\ trace' = [trace EXCEPT ![p] = Append(@, Step("exec", "list", ok))]
                  /\ ret' = [ret EXCEPT ![p] = RetErr(Len(trace[p]) + 1)]
                  /\ pc' = [pc EXCEPT ![p] = "idle"]
                  /\ UNCHANGED <<out, job>>
    /\ UNCHANGED <<container, others, volume, intact, cmd, ensured>>

\* One pass of the loop on a line of fewer than 5 fields: continue.
ListSkip(p) ==
    /\ pc[p] = "list_loop"
    /\ job[p].lines # <<>>
    /\ Len(Fields(Head(job[p].lines))) < 5
    /\ job' = [job EXCEPT ![p].lines = Tail(@),
                          ![p].seen = Append(@, [line |-> Head(job[p].lines), shown |-> FALSE])]
    /\ UNCHANGED <<container, others, volume, intact, cmd, pc, trace, out, ret, ensured>>

\* (variant: the row is printed for every line that reaches getModelDetails)
ListLineRowAtFive(p, showOutputs) ==
    /\ pc[p] = "list_loop"
    /\ job[p].lines # <<>>
    /\ LET fields == Fields(Head(job[p].lines)) IN
        /\ Len(fields) >= 5
        /\ \E ok \in ExecOutcomes : \E text \in (IF ok THEN showOutputs ELSE {<<>>}) :
            LET d == GetModelDetails(ok, text) IN
            /\ trace' = [trace EXCEPT ![p] =
                           Append(@, Step("exec", "show", ok) @@ [text |-> text, details |-> d])]
            /\ out' = [out EXCEPT ![p] = Append(@, Row(fields, d))]
            /\ job' = [job EXCEPT ![p].lines = Tail(@),
                                  ![p].seen = Append(@, [line |-> Head(job[p].lines), shown |-> TRUE,
                                                         at |-> Len(trace[p]) + 1,
                                                         rows |-> Len(out'[p])])]
    /\ UNCHANGED <<container, others, volume, intact, cmd, pc, ret, ensured>>

\* One pass of the loop on a line of at least 5 fields: getModelDetails (its error
\* dropped), and the row when the line has more than 5 fields.
ListLine(p, showOutputs) ==
    /\ pc[p] = "list_loop"
    /\ job[p].lines # <<>>
    /\ LET fields == Fields(Head(job[p].lines)) IN
        /\ Len(fields) >= 5
        /\ \E ok \in ExecOutcomes : \E text \in (IF ok THEN showOutputs ELSE {<<>>}) :
            LET d == GetModelDetails(ok, text) IN
            /\ trace' = [trace EXCEPT ![p] =
                           Append(@, Step("exec", "show", ok) @@ [text |-> text, details |-> d])]
            /\ out' = [out EXCEPT ![p] = IF 5 < Len(fields) THEN Append(@, Row(fields, d)) ELSE @]
            /\ job' = [job EXCEPT ![p].lines = Tail(@),
                                  ![p].seen = Append(@, [line |-> Head(job[p].lines), shown |-> TRUE,
                                                         at |-> Len(trace[p]) + 1,
                                                         rows |-> Len(out'[p])])]
    /\ UNCHANGED <<container, others, volume, intact, cmd, pc, ret, ensured>>

\* The scanner is at the end: return nil.
ListDone(p) ==
    /\ pc[p] = "list_loop"
    /\ job[p].lines = <<>>
    /\ ret' = [ret EXCEPT ![p] = RetNil]
    /\ pc' = [pc EXCEPT ![p] = "idle"]
    /\ UNCHANGED <<container, others, volume, intact, cmd, trace, out, ensured, job>>

---------------------------------------------------------------------------
(* pull *)

HexDigits == Digits \cup {"a", "b", "c", "d", "e", "f"}

\* The characters of the class after the left edge of the bar: full block, right edge, space.
BarChars == {"#", "|", " "}

LitPulling == <<"p","u","l","l","i","n","g"," ">>
LitDone == <<".",".","."," ","1","0","0","%"," ","[">>

\* sizeRegex, part by part:
\*   pulling [a-f0-9]+\.\.\. 100% <edge>[<block><edge> ]+\s+(\d+(?:\.\d+)?)\s+([KMG]B)
\* For a match that starts at i, the greedy hex run ends where the literal
\* `... 100% <edge>` must start, since "." is no hex digit.
SizeHexStart(i) == i + Len(LitPulling)

SizeHexEnd(s, i) == SpanIn(s, SizeHexStart(i), HexDigits)

SizeBarStart(s, i) == SizeHexEnd(s, i) + Len(LitDone)

\* The start of the number after a bar that starts at b: a digit that follows one or
\* more characters of the bar class and then one or more whitespace characters
\* (Len(s) + 1 if there is none; there is at most one).
SizeNumStart(s, b) ==
    LET ws == {w \in (b + 2)..Len(s) :
                 /\ s[w] \in Digits
                 /\ \E m \in (b + 1)..(w - 1) :
                      /\ \A x \in b..(m - 1) : s[x] \in BarChars
                      /\ \A x \in m..(w - 1) : s[x] \in Whitespace}
    IN IF ws = {} THEN Len(s) + 1 ELSE CHOOSE x \in ws : TRUE

\* The end of the number that starts at w: its digits, and a point with the digits
\* after it when there are some.
SizeNumEnd(s, w) ==
    LET n == SpanIn(s, w, Digits)
    IN IF n + 1 <= Len(s) /\ s[n] = "." /\ s[n + 1] \in Digits
         THEN SpanIn(s, n + 1, Digits) ELSE n

\* The unit after a number that ends at e starts where the whitespace ends.
SizeUnitStart(s, e) == SpanIn(s, e, Whitespace)

SizeUnitAt(s, e) ==
    /\ SizeUnitStart(s, e) > e
    /\ SizeUnitStart(s, e) + 1 <= Len(s)
    /\ s[SizeUnitStart(s, e)] \in {"K", "M", "G"}
    /\ s[SizeUnitStart(s, e) + 1] = "B"

SizeMatchAt(s, i) ==
    /\ s[i] = LitPulling[1]
    /\ Slice(s, i, SizeHexStart(i) - 1) = LitPulling
    /\ SizeHexEnd(s, i) > SizeHexStart(i)
    /\ Slice(s, SizeHexEnd(s, i), SizeBarStart(s, i) - 1) = LitDone
    /\ SizeNumStart(s, SizeBarStart(s, i)) <= Len(s)
    /\ SizeUnitAt(s, SizeNumEnd(s, SizeNumStart(s, SizeBarStart(s, i))))

SizeCaptures(s, w, e) ==
    [found |-> TRUE, size |-> Slice(s, w, e - 1),
     unit |-> Slice(s, SizeUnitStart(s, e), SizeUnitStart(s, e) + 1)]

\* sizeRegex.FindStringSubmatch(line): the two captures of the leftmost match.
FindSize(s) ==
    LET starts == {i \in 1..Len(s) : SizeMatchAt(s, i)}
    IN IF starts = {} THEN [found |-> FALSE]
       ELSE SizeCaptures(s,
              SizeNumStart(s, SizeBarStart(s, CHOOSE x \in starts : \A y \in starts : x <= y)),
              SizeNumEnd(s, SizeNumStart(s, SizeBarStart(s, CHOOSE x \in starts : \A y \in starts : x <= y))))

\* What a line adds to totalSizeKB, in hundredths of a KB.
LineSizeKB(line) ==
    LET m == FindSize(line) IN
    IF ~m.found THEN 0
    ELSE CASE m.unit = <<"M", "B">> -> ParseFloat(m.size) * 1000
           [] m.unit = <<"G", "B">> -> ParseFloat(m.size) * 1000000
           [] OTHER -> ParseFloat(m.size)

\* (variant: MB from 1000 KB on)
SummaryFrom1000(total) ==
    IF total >= 100000
      THEN [msg |-> "Downloaded", unit |-> "MB", num |-> total, den |-> 1000]
      ELSE [msg |-> "Downloaded", unit |-> "KB", num |-> total, den |-> 1]

\* The summary line: the total over 1000 in MB above 1000 KB, the total in KB otherwise.
\* The number printed is num / den hundredths.
Summary(total) ==
    IF total > 100000
      THEN [msg |-> "Downloaded", unit |-> "MB", num |-> total, den |-> 1000]
      ELSE [msg |-> "Downloaded", unit |-> "KB", num |-> total, den |-> 1]

\* StdoutPipe, StderrPipe and Start: the child runs with two empty pipes, or Start
\* fails.  The exit status is set by Wait.
PullStart(p) ==
    /\ pc[p] = "pull_start"
    /\ \E ok \in BOOLEAN :
        /\ trace' = [trace EXCEPT ![p] = Append(@, Step("exec", "pull", ok))]
        /\ IF ok
             THEN /\ job' = [job EXCEPT ![p] =
                               [kind |-> "pull", stdout |-> <<>>, stderr |-> <<>>,
                                pending |-> <<>>, written |-> 0, child |-> "running",
                                exit |-> TRUE, alive |-> container = "running", reader |-> "stdout", total |-> 0]]
                  /\ pc' = [pc EXCEPT ![p] = "pull_read"]
                  /\ UNCHANGED ret
             ELSE /\ ret' = [ret EXCEPT ![p] = RetErr(Len(trace[p]) + 1)]
                  /\ pc' = [pc EXCEPT ![p] = "idle"]
                  /\ UNCHANGED job
    /\ UNCHANGED <<container, others, volume, intact, cmd, out, ensured>>

Pulling(p) == job[p].kind = "pull" /\ pc[p] \in {"pull_read", "pull_wait"}

\* The child calls write on one of its two streams with a line.
ChildWrite(p, lines, maxWrites) ==
    /\ Pulling(p)
    /\ job[p].child = "running"
    /\ job[p].pending = <<>>
    /\ job[p].written < maxWrites
    /\ \E fd \in {"stdout", "stderr"}, line \in lines :
        job' = [job EXCEPT ![p].pending = <<[fd |-> fd, line |-> line]>>,
                           ![p].written = @ + 1]
    /\ UNCHANGED <<container, others, volume, intact, cmd, pc, trace, out, ret, ensured>>

\* The write returns once the pipe has room for the line.
ChildWritten(p, pipeCap) ==
    /\ Pulling(p)
    /\ job[p].pending # <<>>
    /\ LET w == job[p].pending[1] IN
        /\ Len(job[p][w.fd]) < pipeCap
        /\ job' = [job EXCEPT ![p][w.fd] = Append(@, w.line), ![p].pending = <<>>]
    /\ UNCHANGED <<container, others, volume, intact, cmd, pc, trace, out, ret, ensured>>

\* The child exits, which closes its ends of both pipes.  It fails when no container
\* of the name ran as it was spawned or runs now, and the command inside may fail.
ChildExit(p) ==
    /\ Pulling(p)
    /\ job[p].child = "running"
    /\ job[p].pending = <<>>
    /\ \E ok \in (IF job[p].alive THEN ExecOutcomes ELSE {FALSE}) :
        job' = [job EXCEPT ![p].child = "exited", ![p].exit = ok]
    /\ UNCHANGED <<container, others, volume, intact, cmd, pc, trace, out, ret, ensured>>

\* scanner.Scan() on io.MultiReader(stdout, stderr): a line of the current pipe is
\* echoed and its size added; at the end of stdout the reader moves on to stderr,
\* at the end of stderr the loop ends.  A pipe is at its end once it is empty and
\* the child has exited; on an empty pipe of a running child the read blocks.
PullRead(p) ==
    /\ pc[p] = "pull_read"
    /\ LET r == job[p].reader IN
        IF job[p][r] # <<>>
          THEN LET line == Head(job[p][r]) IN
               /\ out' = [out EXCEPT ![p] = Append(@, [msg |-> "line", text |-> line])]
               /\ job' = [job EXCEPT ![p][r] = Tail(@), ![p].total = @ + LineSizeKB(line)]
               /\ UNCHANGED pc
          ELSE /\ job[p].child = "exited"
               /\ IF r = "stdout"
                    THEN /\ job' = [job EXCEPT ![p].reader = "stderr"]
                         /\ UNCHANGED pc
                    ELSE /\ pc' = [pc EXCEPT ![p] = "pull_wait"]
                         /\ UNCHANGED job
               /\ UNCHANGED out
    /\ UNCHANGED <<container, others, volume, intact, cmd, trace, ret, ensured>>

\* (variant: the summary is printed before the error of Wait is looked at)
PullWaitSummaryFirst(p) ==
    /\ pc[p] = "pull_wait"
    /\ job[p].child = "exited"
    /\ IF job[p].exit
         THEN /\ out' = [out EXCEPT ![p] = @ \o <<Summary(job[p].total), [msg |-> "pulled successfully"]>>]
              /\ ret' = [ret EXCEPT ![p] = RetNil]
              /\ UNCHANGED trace
         ELSE /\ trace' = [trace EXCEPT ![p][Len(trace[p])].ok = FALSE]
              /\ ret' = [ret EXCEPT ![p] = RetErr(Len(trace[p]))]
              /\ out' = [out EXCEPT ![p] = Append(@, Summary(job[p].total))]
    /\ pc' = [pc EXCEPT ![p] = "idle"]
    /\ UNCHANGED <<container, others, volume, intact, cmd, ensured, job>>

\* execCmd.Wait(): the error of a failed child is returned; otherwise the summary
\* and the success line are printed.
PullWait(p) ==
    /\ pc[p] = "pull_wait"
    /\ job[p].child = "exited"
    /\ IF job[p].exit
         THEN /\ out' = [out EXCEPT ![p] = @ \o <<Summary(job[p].total), [msg |-> "pulled successfully"]>>]
              /\ ret' = [ret EXCEPT ![p] = RetNil]
              /\ UNCHANGED trace
         ELSE /\ trace' = [trace EXCEPT ![p][Len(trace[p])].ok = FALSE]
              /\ ret' = [ret EXCEPT ![p] = RetErr(Len(trace[p]))]
              /\ UNCHANGED out
    /\ pc' = [pc EXCEPT ![p] = "idle"]
    /\ UNCHANGED <<container, others, volume, intact, cmd, ensured, job>>

---------------------------------------------------------------------------
(* Inputs: what the engine prints *)

\* A line of `ollama list`: the fields, four spaces apart.
RECURSIVE ListLineOf(_)
ListLineOf(fs) ==
    IF fs = <<>> THEN <<>>
    ELSE IF Len(fs) = 1 THEN fs[1]
    ELSE fs[1] \o <<" ", " ", " ", " ">> \o ListLineOf(Tail(fs))

ListHeader == ListLineOf(<< <<"N","A","M","E">>, <<"I","D">>, <<"S","I","Z","E">>, <<"M","O","D","I","F","I","E","D">> >>)

\* The fields a model's line can hold, in order: name, id, size, unit, then the age.
LineFields ==
    << <<"q","w","e","n">>, <<"a","8","b","0">>, <<"3","9","7">>, <<"M","B">>,
       <<"5">>, <<"d","a","y","s">>, <<"a","g","o">> >>

LineFieldsGB ==
    << <<"g","e","m","m","a">>, <<"8","6","4","8">>, <<"1",".","5">>, <<"G","B">>,
       <<"2">>, <<"h","o","u","r","s">>, <<"a","g","o">> >>

\* Model lines of 0, 4, 5, 6 and 7 fields.
ModelLines ==
    {ListLineOf(Slice(LineFields, 1, n)) : n \in {0, 4, 5, 6}}
      \cup {ListLineOf(LineFieldsGB)}

\* `ollama list` output: the header line, then the model lines, each ended by "\n".
ListText(ls) == ListHeader \o <<NL>> \o Concat([i \in 1..Len(ls) |-> ls[i] \o <<NL>>])

ListOutputs(maxModels) ==
    {<<>>} \cup UNION {{ListText(ls) : ls \in [1..n -> ModelLines]} : n \in 0..maxModels}

\* `ollama show` output: a Model section with or without its architecture and
\* quantization lines; sep is what stands between a keyword and its value.
ShowLine(kw, sep, val) == <<" ", " ">> \o kw \o sep \o val \o <<NL>>

ShowText(archLine, quantLine) ==
    <<"M","o","d","e","l",NL>> \o archLine
      \o ShowLine(<<"p","a","r","a","m","e","t","e","r","s">>, <<" ", " ">>, <<"4","9","4","M">>)
      \o quantLine

ArchLine == ShowLine(KwArchitecture, <<" ", " ", " ">>, <<"l","l","a","m","a">>)

\* The keyword with no whitespace after it.
ArchLineColon == ShowLine(KwArchitecture, <<":">>, <<"l","l","a","m","a">>)

QuantLine == ShowLine(KwQuantization, <<"\t">>, <<"Q","4","_","0">>)

\* The keyword with no value after it, at the end of the output.
QuantLineBare == ShowLine(KwQuantization, <<>>, <<>>)

\* Both lines, each of the two beside a line of the other that does not match, and neither.
ShowOutputs ==
    { ShowText(ArchLine, QuantLine), ShowText(ArchLine, QuantLineBare),
      ShowText(ArchLineColon, QuantLine), ShowText(<<>>, <<>>) }

\* A progress line of `ollama pull`.
Progress(hex, pct, bar, size, unit) ==
    LitPulling \o hex \o <<".", ".", ".", " ">> \o pct \o <<"%", " ", "[">> \o bar
      \o <<"|", " ">> \o size \o <<" ">> \o unit \o <<" ", " ">>

Hex1 == <<"c","5","3","9">>
Hex2 == <<"e","b","4","4">>

\* Lines of `ollama pull`, each with the size in hundredths of a KB that a line
\* `pulling <hex>... 100% <bar> <n> <unit>` stands for: n for KB, n x 1000 for MB,
\* n x 1000000 for GB, and nothing for a unit of B, a line not at 100% or any other line.
PullLineTable ==
    { [text |-> Progress(Hex1, <<"1","0","0">>, <<"#","#">>, <<"3","9","7">>, <<"M","B">>),
         kb |-> 39700000],
      [text |-> Progress(Hex2, <<"1","0","0">>, <<"#","#">>, <<"1",".","5">>, <<"K","B">>),
         kb |-> 150],
      [text |-> Progress(Hex1, <<"1","0","0">>, <<"#","#">>, <<" ","1","0","0","0">>, <<"K","B">>),
         kb |-> 100000],
      [text |-> Progress(Hex2, <<"1","0","0">>, <<"#"," ">>, <<"1",".","2","5">>, <<"G","B">>),
         kb |-> 125000000],
      [text |-> Progress(Hex1, <<"1","0","0">>, <<"#","#">>, <<" "," ","6","8">>, <<"B">>),
         kb |-> 0],
      [text |-> Progress(Hex1, <<" ","4","5">>, <<"#"," ">>, <<"1","8","0">>, <<"M","B","/","3","9","7"," ","M","B">>),
         kb |-> 0],
      [text |-> LitPulling \o <<"m","a","n","i","f","e","s","t"," ">>,
         kb |-> 0] }

PullLines == {r.text : r \in PullLineTable}

---------------------------------------------------------------------------
(* Specification: one invocation at a time, every subcommand *)

Init ==
    /\ container \in {"absent", "exited", "running"}
    /\ others \in SUBSET OtherNames
    /\ volume \in BOOLEAN
    /\ intact = FALSE
    /\ cmd = [p \in Procs |-> "none"]
    /\ pc = [p \in Procs |-> "idle"]
    /\ trace = [p \in Procs |-> <<>>]
    /\ out = [p \in Procs |-> <<>>]
    /\ ret = [p \in Procs |-> NoRet]
    /\ ensured = [p \in Procs |-> "no"]
    /\ job = [p \in Procs |-> NoJob]

Next ==
    \/ ContainerStops
    \/ Start(1, Commands)
    \/ EnsurePs(1)
    \/ EnsureRm(1)
    \/ EnsureVolume(1)
    \/ EnsureRun(1)
    \/ EnsureSleep(1)
    \/ Status(1)
    \/ Version(1)
    \/ Rm(1)
    \/ Run(1)
    \/ ListExec(1, ListOutputs(1))
    \/ ListSkip(1)
    \/ ListLine(1, {<<>>, ShowText(<<>>, <<>>)})
    \/ ListDone(1)
    \/ PullStart(1)
    \/ ChildWrite(1, {LitPulling}, 1)
    \/ ChildWritten(1, 1)
    \/ ChildExit(1)
    \/ PullRead(1)
    \/ PullWait(1)

Spec == Init /\ [][Next]_vars

---------------------------------------------------------------------------
(* Specification: pull, with every line and every interleaving of the child's writes *)

MaxWrites == 2

PipeCap == 1

InitPull == Init /\ others = {} /\ volume

NextPull ==
    \/ Start(1, {"pull"})
    \/ EnsurePs(1)
    \/ EnsureRm(1)
    \/ EnsureVolume(1)
    \/ EnsureRun(1)
    \/ EnsureSleep(1)
    \/ PullStart(1)
    \/ ChildWrite(1, PullLines, MaxWrites)
    \/ ChildWritten(1, PipeCap)
    \/ ChildExit(1)
    \/ PullRead(1)
    \/ PullWait(1)

SpecPull == InitPull /\ [][NextPull]_vars

---------------------------------------------------------------------------
(* Specification: list, with every line and every `ollama show` output *)

MaxModels == 2

InitList == Init /\ others = {} /\ volume

NextList ==
    \/ Start(1, {"list"})
    \/ EnsurePs(1)
    \/ EnsureRm(1)
    \/ EnsureVolume(1)
    \/ EnsureRun(1)
    \/ EnsureSleep(1)
    \/ ListExec(1, ListOutputs(MaxModels))
    \/ ListSkip(1)
    \/ ListLine(1, ShowOutputs)
    \/ ListDone(1)

SpecList == InitList /\ [][NextList]_vars

---------------------------------------------------------------------------
(* Specification: list, with every line and one `ollama show` output *)

NextTable ==
    \/ Start(1, {"list"})
    \/ EnsurePs(1)
    \/ EnsureRm(1)
    \/ EnsureVolume(1)
    \/ EnsureRun(1)
    \/ EnsureSleep(1)
    \/ ListExec(1, ListOutputs(MaxModels))
    \/ ListSkip(1)
    \/ ListLine(1, {ShowText(ArchLine, QuantLine)})
    \/ ListDone(1)

SpecTable == InitList /\ [][NextTable]_vars

---------------------------------------------------------------------------
(* Specification: concurrent invocations, each a process of its own that runs *)
(* one subcommand once, started while the container is not active            *)

ConcCommands == {"version", "rm", "run"}

InitConc == Init /\ container # "running" /\ others = {}

\* An invocation is one run of the plugin's process: it starts once.
Invoke(p) == cmd[p] = "none" /\ Start(p, ConcCommands)

NextConc ==
    \E p \in Procs :
        \/ Invoke(p)
        \/ EnsurePs(p)
        \/ EnsureRm(p)
        \/ EnsureVolume(p)
        \/ EnsureRun(p)
        \/ EnsureSleep(p)
        \/ Version(p)
        \/ Rm(p)
        \/ Run(p)

SpecConc == InitConc /\ [][NextConc]_vars

---------------------------------------------------------------------------
(* Properties of the lifecycle and of error propagation (under Spec) *)

\* The steps that spawn a process.
IsSpawn(st) == st.kind # "sleep"

IsExec(st) == st.kind \in {"exec", "exec_it"}

\* The invocations that call ensureOllamaRunning.
Ensuring(p) == cmd[p] \in {"version", "list", "pull", "rm", "run"}

\* C1: ensureOllamaRunning is idempotent.  When an earlier call returned nil, having
\* seen the container active or launched it, and nothing has stopped or removed the
\* container since, a call whose `docker ps` listing succeeds spawns nothing but that
\* listing: every later process of the invocation is a `docker exec` of the
\* subcommand's body, none is `docker rm`, `docker volume create` or `docker run`,
\* and the call returns nil.
C1_EnsureIdempotent ==
    \A p \in Procs :
        (/\ Ensuring(p)
         /\ trace[p] # <<>>
         /\ trace[p][1].ok
         /\ trace[p][1].intact)
        => /\ ensured[p] = "nil"
           /\ \A i \in 2..Len(trace[p]) : IsExec(trace[p][i])

\* A second call in a row has returned nil after its listing alone, and the body ran.
C1_Witness ==
    \E p \in Procs :
        /\ Ensuring(p)
        /\ Len(trace[p]) = 2
        /\ trace[p][1].kind = "ps" /\ trace[p][1].ok /\ trace[p][1].intact
        /\ trace[p][1].live = "running"
        /\ ensured[p] = "nil"
        /\ ret[p] = RetNil

\* A spawned process of invocation p that failed.
Failed(p, i) == IsSpawn(trace[p][i]) /\ ~trace[p][i].ok

\* C2, as stated: in version, list, pull, rm and run every spawned process that
\* fails ends the command, which returns that failure; no process is spawned after it.
C2_FirstFailureEnds ==
    \A p \in Procs : \A i \in 1..Len(trace[p]) :
        (Ensuring(p) /\ Failed(p, i))
        => /\ i = Len(trace[p])
           /\ pc[p] = "idle"
           /\ ret[p] = RetErr(i)

\* The processes whose failure the code returns: docker run, and every docker exec
\* but the per-model `ollama show`.
Propagates(st) ==
    \/ st.kind = "run"
    \/ st.kind = "exec_it"
    \/ st.kind = "exec" /\ st.arg # "show"

\* C2, amended: a failure of `docker run` or of a `docker exec` other than the
\* per-model `ollama show` ends the command, which returns that failure, and no
\* process is spawned after it; a failure of the `docker ps` listing, of the
\* stale-container removal, of the volume creation or of `ollama show` is never
\* returned, and the command returns nil unless a later process of the first kind fails.
C2_PropagatedFailureEnds ==
    \A p \in Procs : \A i \in 1..Len(trace[p]) :
        (Ensuring(p) /\ Failed(p, i))
        => IF Propagates(trace[p][i])
             THEN /\ i = Len(trace[p])
                  /\ pc[p] = "idle"
                  /\ ret[p] = RetErr(i)
             ELSE /\ ret[p].err # i
                  /\ ret[p].done /\ ret[p].err # 0 => Propagates(trace[p][ret[p].err])

\* A command ended by a failed docker exec after a failed listing, a failed removal
\* and a failed volume creation that did not end it.
C2_Witness ==
    \E p \in Procs :
        /\ Len(trace[p]) = 6
        /\ \A i \in 1..3 : Failed(p, i)
        /\ Failed(p, 6) /\ trace[p][6].kind = "exec"
        /\ ret[p] = RetErr(6)

\* C3, as stated: status returns an error whenever its `docker ps` listing fails,
\* and prints 'not running' with a nil error only when the listing succeeded and
\* the container was not running.
C3_StatusReportsListingFailure ==
    \A p \in Procs :
        (cmd[p] = "status" /\ ret[p].done)
        => /\ ~trace[p][1].ok => ret[p].err # 0
           /\ (out[p] = <<[msg |-> "not running"]>> /\ ret[p] = RetNil)
                => (trace[p][1].ok /\ trace[p][1].live # "running")

EnsureOrder == <<"ps", "rm", "volume", "run", "sleep">>

\* C4: the steps of ensureOllamaRunning are, in this order and each at most once,
\* the listing, the removal, the volume creation, the launch and the sleep: the
\* i-th step of an invocation that is not a docker exec is the i-th of these.  When
\* it returned nil it took the listing alone or all five; and a docker exec is
\* spawned only after it returned nil, with nothing but docker execs after it.
C4_EnsureOrderThenExec ==
    \A p \in Procs :
        Ensuring(p)
        => /\ \A i \in 1..Len(trace[p]) :
                IF IsExec(trace[p][i])
                  THEN /\ ensured[p] = "nil"
                       /\ \A j \in i..Len(trace[p]) : IsExec(trace[p][j])
                  ELSE /\ i <= Len(EnsureOrder)
                       /\ trace[p][i].kind = EnsureOrder[i]
           /\ ensured[p] = "nil"
                => LET n == Cardinality({i \in 1..Len(trace[p]) : ~IsExec(trace[p][i])})
                   IN \/ n = 1 /\ trace[p][1].ok
                      \/ n = Len(EnsureOrder) /\ trace[p][4].ok

\* A container that was not active has been removed, its volume created, a fresh one
\* launched, the delay waited, and then the docker exec spawned.
C4_Witness ==
    \E p \in Procs :
        /\ Len(trace[p]) = 6
        /\ [i \in 1..5 |-> trace[p][i].kind] = EnsureOrder
        /\ trace[p][1].ok /\ trace[p][1].live = "exited"
        /\ IsExec(trace[p][6])
        /\ ensured[p] = "nil"

\* C9, as stated: `docker rm -f mocker-model-runner` is never spawned while the
\* container mocker-model-runner is running, whatever the listing's outcome.
C9_RemovesOnlyStale ==
    \A p \in Procs : \A i \in 1..Len(trace[p]) :
        trace[p][i].kind = "rm" => trace[p][i].live # "running"

\* C10, as stated: whenever ensureOllamaRunning has returned nil and the container
\* has not stopped or been removed since it was seen active or launched, a container named exactly
\* mocker-model-runner is running, whatever the other running containers are named.
C10_NilMeansNamedContainerRuns ==
    \A p \in Procs :
        (ensured[p] = "nil" /\ intact) => container = "running"

---------------------------------------------------------------------------
(* Properties of pull (under SpecPull) *)

\* The child of pull is blocked in a write to its stderr, whose pipe is full.
ChildBlockedOnStderr(p) ==
    /\ job[p].child = "running"
    /\ job[p].pending # <<>>
    /\ job[p].pending[1].fd = "stderr"
    /\ Len(job[p].stderr) >= PipeCap

\* pull is blocked in a read of stdout, whose pipe is empty and still open.
ReaderBlockedOnStdout(p) ==
    /\ pc[p] = "pull_read"
    /\ job[p].reader = "stdout"
    /\ job[p].stdout = <<>>
    /\ job[p].child = "running"

\* C5, as stated: no state is reachable in which the child is blocked writing to a
\* full stderr pipe while pull is blocked reading stdout.
C5_NoPipeDeadlock ==
    \A p \in Procs :
        (job[p].kind = "pull" /\ pc[p] = "pull_read")
        => ~(ChildBlockedOnStderr(p) /\ ReaderBlockedOnStdout(p))

\* What pull has printed of a kind.
Printed(p, m) == {i \in 1..Len(out[p]) : out[p][i].msg = m}

\* C6: pull propagates the exit status of `ollama pull`.  Once the process has
\* exited non-zero and pull has returned, pull has returned that process's error and
\* printed neither the 'Downloaded:' line nor the 'pulled successfully' line; and
\* 'pulled successfully' is printed only once the process has exited with status
\* zero, after the one 'Downloaded:' line, as the last line, with a nil return.
C6_PullPropagatesExit ==
    \A p \in Procs :
        (cmd[p] = "pull" /\ job[p].kind = "pull")
        => /\ (pc[p] = "idle" /\ ~job[p].exit)
                => /\ ret[p] = RetErr(Len(trace[p]))
                   /\ trace[p][Len(trace[p])].arg = "pull"
                   /\ Printed(p, "Downloaded") = {}
                   /\ Printed(p, "pulled successfully") = {}
           /\ (Printed(p, "Downloaded") # {} \/ Printed(p, "pulled successfully") # {})
                => /\ job[p].child = "exited" /\ job[p].exit
                   /\ ret[p] = RetNil
                   /\ Printed(p, "pulled successfully") = {Len(out[p])}
                   /\ Printed(p, "Downloaded") = {Len(out[p]) - 1}

\* `ollama pull` has printed a line with a size and exited non-zero, and pull has returned its error.
C6_Witness ==
    \E p \in Procs :
        /\ cmd[p] = "pull" /\ job[p].kind = "pull" /\ pc[p] = "idle"
        /\ ~job[p].exit
        /\ job[p].total > 0
        /\ ret[p].err = Len(trace[p])

\* The size a line stands for, by the table of lines.
ExpectedKB(line) == (CHOOSE r \in PullLineTable : r.text = line).kb

RECURSIVE SumExpected(_, _)
SumExpected(o, i) ==
    IF i = 0 THEN 0
    ELSE SumExpected(o, i - 1) + (IF o[i].msg = "line" THEN ExpectedKB(o[i].text) ELSE 0)

---------------------------------------------------------------------------
(* Properties of list (under SpecList) *)

\* `kw\s+(\S+)` matches somewhere in s: the keyword, then n >= 1 whitespace
\* characters, then a character that is not whitespace.
HasKeywordValue(s, kw) ==
    \E i \in 1..(Len(s) - Len(kw)) :
        /\ \A k \in 1..Len(kw) : s[i + k - 1] = kw[k]
        /\ \E n \in 1..(Len(s) - Len(kw) - i) :
            /\ \A k \in 1..n : s[i + Len(kw) + k - 1] \in Whitespace
            /\ s[i + Len(kw) + n] \notin Whitespace

\* The `ollama show` calls of invocation p that exited zero.
Shows(p) == {i \in 1..Len(trace[p]) : trace[p][i].arg = "show" /\ trace[p][i].ok}

\* C7: parsing failures never raise errors.  For every `ollama show` that exited
\* zero, getModelDetails returns a nil error, "unknown" for the architecture when
\* and only when its output has no `architecture <word>` match, and "unknown" for
\* the quantization when and only when it has no `quantization <word>` match; the
\* row of a line of at least 6 fields is printed all the same, with these two
\* values; and list, once `ollama list` has succeeded, returns nil.
C7_ParseFailuresDegrade ==
    \A p \in Procs :
        (cmd[p] = "list" /\ job[p].kind = "list")
        => /\ \A i \in Shows(p) :
                /\ ~trace[p][i].details.err
                /\ trace[p][i].details.arch = Unknown
                     <=> ~HasKeywordValue(trace[p][i].text, KwArchitecture)
                /\ trace[p][i].details.quant = Unknown
                     <=> ~HasKeywordValue(trace[p][i].text, KwQuantization)
           /\ \A k \in 1..Len(job[p].seen) :
                LET e == job[p].seen[k] IN
                (e.shown /\ Len(Fields(e.line)) >= 6)
                => /\ out[p][e.rows].msg = "row"
                   /\ out[p][e.rows].model = Fields(e.line)[1]
                   /\ out[p][e.rows].arch = trace[p][e.at].details.arch
                   /\ out[p][e.rows].quant = trace[p][e.at].details.quant
           /\ pc[p] = "idle" => ret[p] = RetNil

\* list has returned nil after printing a row whose architecture is "unknown", for
\* want of a match, beside a quantization that was found.
C7_Witness ==
    \E p \in Procs :
        /\ cmd[p] = "list" /\ pc[p] = "idle" /\ ret[p] = RetNil
        /\ \E i \in Shows(p), r \in Printed(p, "row") :
            /\ ~HasKeywordValue(trace[p][i].text, KwArchitecture)
            /\ Contains(trace[p][i].text, KwArchitecture)
            /\ out[p][r].arch = Unknown
            /\ out[p][r].quant = <<"Q", "4", "_", "0">>

---------------------------------------------------------------------------
(* Properties of concurrent invocations (under SpecConc) *)

\* Under SpecConc the container is not active at first and only an invocation's
\* `docker run` makes it run, each invocation launching at most once and only after
\* its own removal: a removal that finds the container running removes one that
\* another invocation has launched.
RemovesAnothersContainer(p) ==
    \E i \in 1..Len(trace[p]) :
        trace[p][i].kind = "rm" /\ trace[p][i].ok /\ trace[p][i].live = "running"

\* The launch of invocation p failed because another invocation's container holds the name.
LaunchCollides(p) ==
    \E i \in 1..Len(trace[p]) :
        trace[p][i].kind = "run" /\ ~trace[p][i].ok /\ trace[p][i].live = "running"

\* A docker exec of invocation p was spawned while the container was not running.
ExecWithoutContainer(p) ==
    \E i \in 1..Len(trace[p]) :
        IsExec(trace[p][i]) /\ trace[p][i].live # "running"

\* The listing of invocation p was spawned while the container was not active.
ListedWhileNotActive(p) == trace[p] # <<>> /\ trace[p][1].live # "running"

\* C11, as stated: concurrent invocations do not interfere.  In every interleaving
\* of the docker processes of invocations whose listings ran while the container was
\* not active, no invocation removes a container another has launched, no
\* ensureOllamaRunning call fails because another invocation's container holds the
\* name, and every docker exec is spawned while the container runs.
C11_NoInterference ==
    (\A p \in Procs : trace[p] # <<>> => ListedWhileNotActive(p))
    => \A p \in Procs :
        /\ ~RemovesAnothersContainer(p)
        /\ ~LaunchCollides(p)
        /\ ~ExecWithoutContainer(p)

---------------------------------------------------------------------------
(* Properties of the table of list (under SpecList) *)

\* The lines of the `ollama list` output that invocation p received.
ListedLines(p) ==
    ScanLines(trace[p][CHOOSE i \in 1..Len(trace[p]) : trace[p][i].arg = "list"].text)

\* The fields of each line of ls.
RECURSIVE FieldsOfEach(_)
FieldsOfEach(ls) ==
    IF ls = <<>> THEN <<>> ELSE <<Fields(Head(ls))>> \o FieldsOfEach(Tail(ls))

HasFive(f) == Len(f) >= 5

HasSix(f) == Len(f) >= 6

\* The `ollama show` calls of invocation p, whatever their exit status.
ShowCalls(p) == {i \in 1..Len(trace[p]) : trace[p][i].arg = "show"}

\* C12: list skips the first line of the `ollama list` output and takes every
\* following line in order.  Of the lines taken so far, those of fewer than 5 fields
\* caused no `ollama show` call and those of 5 fields or more caused one each; what
\* list has printed is the table header and then one row for each line of at least
\* 6 fields, and no other, in the order of the lines, each with the name, id, size,
\* unit and age of its line: a line of exactly 5 fields has its `ollama show` call
\* and no row.
C12_RowPerLineOfSixFields ==
    \A p \in Procs :
        (cmd[p] = "list" /\ job[p].kind = "list")
        => LET all == ListedLines(p)
               taken == [k \in 1..Len(job[p].seen) |-> job[p].seen[k].line]
               fs == FieldsOfEach(taken)
               rowFields == SelectSeq(fs, HasSix)
               h == Len(out[p]) - Len(rowFields)
           IN /\ taken \o job[p].lines = (IF all = <<>> THEN <<>> ELSE Tail(all))
              /\ \A k \in 1..Len(fs) : job[p].seen[k].shown <=> HasFive(fs[k])
              /\ Cardinality(ShowCalls(p)) = Len(SelectSeq(fs, HasFive))
              /\ Printed(p, "header") = {h}
              /\ Printed(p, "row") = (h + 1)..Len(out[p])
              /\ \A j \in 1..Len(rowFields) :
                    LET f == rowFields[j]
                        r == out[p][h + j]
                    IN /\ r.msg = "row"
                       /\ r.model = f[1] /\ r.id = f[2] /\ r.size = f[3] /\ r.unit = f[4]
                       /\ r.time = Join(Slice(f, 6, Len(f)))

\* list has returned after a line of exactly 5 fields, which had its `ollama show`
\* call and no row, and then a line of 7 fields, which had its row.
C12_Witness ==
    \E p \in Procs :
        /\ cmd[p] = "list" /\ job[p].kind = "list" /\ pc[p] = "idle" /\ ret[p] = RetNil
        /\ Len(job[p].seen) = 2
        /\ Len(Fields(job[p].seen[1].line)) = 5
        /\ Len(Fields(job[p].seen[2].line)) = 7
        /\ Cardinality(ShowCalls(p)) = 2
        /\ Printed(p, "row") = {Len(out[p])}
        /\ out[p][Len(out[p])].model = Fields(job[p].seen[2].line)[1]

---------------------------------------------------------------------------
(* Properties of status (under Spec) *)

StatusLines == {"active", "not running"}

\* The step in which status of invocation p runs and returns.
StatusReturns(p) == cmd[p] = "status" /\ pc[p] = "status_ps" /\ pc'[p] = "idle"

\* C13: status is read-only.  An invocation of status has spawned nothing before its
\* one step and, once it has returned, has spawned exactly one process, the
\* `docker ps` listing, and printed exactly one line, 'Mocker Model Runner is active'
\* or 'Mocker Model Runner is not running'; and the step in which it runs leaves the
\* container, the other containers and the volume as they were.
C13_StatusReadOnly ==
    /\ [](\A p \in Procs :
            cmd[p] = "status"
            => IF pc[p] = "idle"
                 THEN /\ Len(trace[p]) = 1 /\ trace[p][1].kind = "ps"
                      /\ Len(out[p]) = 1 /\ out[p][1].msg \in StatusLines
                 ELSE trace[p] = <<>> /\ out[p] = <<>>)
    /\ [][\A p \in Procs :
            StatusReturns(p)
            => /\ container' = container
               /\ others' = others
               /\ volume' = volume]_vars

\* status has found the container running, printed 'active' and returned nil, and
\* the container still runs.
C13_Witness ==
    \E p \in Procs :
        /\ cmd[p] = "status" /\ pc[p] = "idle" /\ ret[p] = RetNil
        /\ trace[p][1].ok /\ trace[p][1].live = "running"
        /\ out[p] = <<[msg |-> "active"]>>
        /\ container = "running"

=============================================================================
